---- MODULE Spec2Model ----
(***************************************************************************)
(* Trainer of src/ds_trainer.py: the epoch / batch training loop, the      *)
(* evaluation loop, checkpointing, early stopping and rank-0 logging.      *)
(*                                                                         *)
(* One Trainer object of one process is modelled.  The framework calls     *)
(* (model forward / backward / step, save_pretrained, the file system) are *)
(* recorded as effects; the numbers the loop decides on (the losses) are   *)
(* computed from the labels and logits of each batch as the code does.     *)
(*                                                                         *)
(* A dataset is None or the number of batches its loader yields, 0         *)
(* included: an empty train loader makes line 119 divide by zero, an empty *)
(* dev loader is false in `if valid_dataloader:`.  evaluate() and          *)
(* save_model() are also called directly, on the Trainer train() has not   *)
(* been called on; train() is called once.                                 *)
(***************************************************************************)
EXTENDS Integers, Sequences, FiniteSets, TLC

----------------------------------------------------------------------------
(* Bounds of the model *)

MaxEpochs == 3
MaxStop == 2
MaxTrainBatches == 2
MaxValBatches == 1
MaxLen == 2

\* the token ids of the tokenizer
Vocab == {1, 2}

\* args.rank: the logging rank and one other rank (every other rank runs the same code)
Ranks == {0, 1}

\* args.logging_steps; 0 makes `step % logging_steps` raise on rank 0
LoggingSteps == {0, 1, 2}

----------------------------------------------------------------------------
(* Python values *)

\* None / a present value, for train_dataset, dev_dataset, dir_id, best_log
None == << >>
Some(x) == << x >>
IsNone(o) == o = << >>
Get(o) == o[1]

RECURSIVE GCD(_, _)
GCD(a, b) == IF b = 0 THEN a ELSE GCD(b, a % b)

\* A float is an exact fraction n/d (d > 0), or NaN (d = 0)
NaN == [n |-> 0, d |-> 0]
IsNaN(x) == x.d = 0
Frac(n, d) == LET g == GCD(n, d) IN [n |-> n \div g, d |-> d \div g]
FromInt(i) == [n |-> i, d |-> 1]
FAdd(x, y) == IF IsNaN(x) \/ IsNaN(y) THEN NaN
              ELSE Frac(x.n * y.d + y.n * x.d, x.d * y.d)
\* x / k for an integer k > 0
FDiv(x, k) == IF IsNaN(x) THEN NaN ELSE Frac(x.n, x.d * k)
\* x < y: every comparison with NaN is False
FLess(x, y) == ~IsNaN(x) /\ ~IsNaN(y) /\ x.n * y.d < y.n * x.d

\* round(x, 4): the nearest multiple of 1/10000
Round4(x) == IF IsNaN(x) THEN NaN
             ELSE Frac((2 * 10000 * x.n + x.d) \div (2 * x.d), 10000)

RECURSIVE FSum(_)
FSum(s) == IF s = << >> THEN FromInt(0) ELSE FAdd(Head(s), FSum(Tail(s)))

\* np.mean(list): NaN for the empty list
NpMean(s) == IF s = << >> THEN NaN ELSE FDiv(FSum(s), Len(s))

----------------------------------------------------------------------------
(* The masked loss *)

\* the label mask_tokens gives to a position that is not to be predicted
IgnoreIndex == -100

\* tensor[mask]: the entries of a sequence whose mask entry is TRUE, in order
RECURSIVE MaskSelect(_, _)
MaskSelect(t, mask) ==
    IF t = << >> THEN << >>
    ELSE (IF Head(mask) THEN << Head(t) >> ELSE << >>)
         \o MaskSelect(Tail(t), Tail(mask))

\* nn.CrossEntropyLoss() (reduction "mean", ignore_index -100): logits[i][c] is
\* the cross entropy of row i against class c; targets equal to ignore_index
\* are skipped; the mean over no target is NaN
RECURSIVE CESum(_, _)
CESum(logits, labels) ==
    IF labels = << >> THEN 0
    ELSE (IF Head(labels) = IgnoreIndex THEN 0 ELSE Head(logits)[Head(labels)])
         + CESum(Tail(logits), Tail(labels))

CrossEntropyLoss(logits, labels) ==
    LET kept == MaskSelect(labels, [i \in DOMAIN labels |-> labels[i] # IgnoreIndex])
    IN  IF kept = << >> THEN NaN ELSE Frac(CESum(logits, labels), Len(kept))

\* the mask with the comparison inverted
LossMaskInverted(b_label) == [i \in DOMAIN b_label |-> b_label[i] = IgnoreIndex]

\* loss_mx = b_label != -100
LossMask(b_label) == [i \in DOMAIN b_label |-> b_label[i] # IgnoreIndex]

\* the loss of a training batch whose mask_tokens labels are b.label and whose
\* model output is b.logits
TrainLoss(b) ==
    LET loss_mx == LossMask(b.label)
        logits  == MaskSelect(b.logits, loss_mx)
        labels  == MaskSelect(b.label, loss_mx)
    IN  CrossEntropyLoss(logits, labels)

\* the loss of an evaluation batch
EvalLoss(b) ==
    LET loss_mx == LossMask(b.label)
        logits  == MaskSelect(b.logits, loss_mx)
        labels  == MaskSelect(b.label, loss_mx)
    IN  CrossEntropyLoss(logits, labels)

----------------------------------------------------------------------------
(* What a batch gives: the labels of mask_tokens and the logits of the model *)

Row(c) == [v \in Vocab |-> c]

\* one position to predict (label 1, cross entropy c), one position left alone
Outcome(c) == [label |-> << 1, IgnoreIndex >>, logits |-> << Row(c), Row(c + 5) >>]

\* mask_tokens selected no position at all
Unmasked == [label |-> << IgnoreIndex, IgnoreIndex >>, logits |-> << Row(1), Row(2) >>]

\* what the batches of the loops give
TrainOutcomes == { Outcome(2) }
EvalOutcomes == { Outcome(1), Outcome(2), Outcome(10000), Unmasked }

\* every batch of at most MaxLen positions, for the loss on its own
Labels == {IgnoreIndex} \cup Vocab
Rows == [Vocab -> {1, 2}]
BatchesOfLen(k) == { [label |-> l, logits |-> r] : l \in [1..k -> Labels], r \in [1..k -> Rows] }
Batches == UNION { BatchesOfLen(k) : k \in 0..MaxLen }

----------------------------------------------------------------------------
VARIABLES
    args,            \* rank, num_train_epochs, max_stop_number, logging_steps
    train_dataset,   \* None, or the number of batches of its loader on this rank
    dev_dataset,     \* None, or the number of batches of its loader
    dir_id,          \* self.dir_id
    loss_fn,         \* self.loss_fn: None until train() sets it
    model_mode,      \* "init", "train" (model.train()) or "eval" (model.eval())
    fs,              \* the run directory: made, params.txt, log.txt, checkpoint
    log_lines,       \* the lines written to log.txt
    stdout,          \* the lines printed
    pc,              \* where the Trainer is
    caller,          \* who called evaluate(): "train" or "user"
    outcome,         \* how the last public call ended: "", "returned" or the exception
    retval,          \* what the last evaluate() returned
    epoch_i, step,
    total_loss, batch_loss, batch_counts, avg_train_loss,
    best_log, loss_check, stop_count,
    valid_len, valid_i, val_loss,    \* evaluate(): its loader, position, list
    train_called,    \* train() was called
    stopped,         \* the epoch loop was left by the break
    ops,             \* calls made by train(): forward, backward, step, evaluate, save_model
    ops_at_stop,     \* ops when the break was taken
    epochs,          \* one record per epoch train() finished
    loss_batch, loss_value, loss_path   \* a batch, its loss, and the path that computed it

vars == << args, train_dataset, dev_dataset, dir_id, loss_fn, model_mode, fs,
           log_lines, stdout, pc, caller, outcome, retval, epoch_i, step,
           total_loss, batch_loss, batch_counts, avg_train_loss, best_log,
           loss_check, stop_count, valid_len, valid_i, val_loss, train_called,
           stopped, ops, ops_at_stop, epochs, loss_batch, loss_value, loss_path >>

conf == << args, train_dataset, dev_dataset >>
loop == << epoch_i, step, total_loss, batch_loss, batch_counts, avg_train_loss,
           best_log, loss_check, stop_count >>
evalv == << valid_len, valid_i, val_loss >>
ghost == << stopped, ops, ops_at_stop, epochs >>
lossv == << loss_batch, loss_value, loss_path >>

NoOps == [forward |-> 0, backward |-> 0, step |-> 0, evaluate |-> 0, save_model |-> 0]
NoFiles == [dir |-> FALSE, params |-> FALSE, log |-> "unopened", checkpoint |-> FALSE]

RunDir == "model_dir/today"
NoDataset == "train_dataset doesn't exists!"

Line(text) == [rank |-> args.rank, text |-> text]

\* the state after Trainer.__init__
InitTrainer ==
    /\ dir_id = None
    /\ loss_fn = None
    /\ model_mode = "init"
    /\ fs = NoFiles
    /\ log_lines = << >>
    /\ stdout = << >>
    /\ pc = "idle"
    /\ caller = "user"
    /\ outcome = ""
    /\ retval = None
    /\ epoch_i = 0 /\ step = 0
    /\ total_loss = FromInt(0) /\ batch_loss = FromInt(0) /\ batch_counts = 0
    /\ avg_train_loss = FromInt(0)
    /\ best_log = None /\ loss_check = FromInt(0) /\ stop_count = 0
    /\ valid_len = 0 /\ valid_i = 0 /\ val_loss = << >>
    /\ train_called = FALSE
    /\ stopped = FALSE
    /\ ops = NoOps /\ ops_at_stop = NoOps
    /\ epochs = << >>

Init ==
    /\ args \in [rank : Ranks, num_train_epochs : 0..MaxEpochs,
                 max_stop_number : 0..MaxStop, logging_steps : LoggingSteps]
    /\ train_dataset \in {None} \cup { Some(n) : n \in 0..MaxTrainBatches }
    /\ dev_dataset \in {None} \cup { Some(n) : n \in 0..MaxValBatches }
    /\ InitTrainer
    /\ loss_batch = None /\ loss_value = NaN /\ loss_path = ""

----------------------------------------------------------------------------
(* Helpers of the actions *)

\* loss_check, stop_count = 10000, 0
InitLossCheck == 10000

\* a print without the rank test
EmitAnyRank(out, text) == Append(out, Line(text))

\* if self.args.rank==0: print(text) / print(text, file=log)
Emit(out, text) == IF args.rank = 0 THEN Append(out, Line(text)) ELSE out

\* valid_dataloader = None; if self.dev_dataset is not None: DataLoader(dev_dataset)
valid_dataloader == IF IsNone(dev_dataset) THEN None ELSE Some(Get(dev_dataset))

\* `if valid_dataloader:`: None is false, and so is a DataLoader of length 0
Truth(loader) == ~IsNone(loader) /\ Get(loader) > 0

\* the comparison with <= in place of <
ImprovedOrEqual(loss) == ~IsNaN(loss) /\ ~FLess(loss_check, loss)

\* result["loss"] < loss_check
Improved(loss) == FLess(loss, loss_check)

\* the stop test with > in place of >=
ShouldStopLate(count) == count > args.max_stop_number

\* stop_count >= self.args.max_stop_number
ShouldStop(count) == count >= args.max_stop_number

\* save_model() as train() calls it: dir_id is set
SavedFiles == [fs EXCEPT !.dir = TRUE, !.checkpoint = TRUE]

Did(op) == [ops EXCEPT ![op] = @ + 1]

\* an exception leaves the public call
Raise(e) == /\ pc' = "idle"
            /\ outcome' = e

----------------------------------------------------------------------------
(* train() *)

\* train() making the run directory and the files before it looks at train_dataset
CallTrainLateCheck ==
    /\ pc = "idle" /\ ~train_called
    /\ train_called' = TRUE
    /\ retval' = None
    /\ dir_id' = Some(RunDir)
    /\ fs' = [fs EXCEPT !.dir = TRUE, !.log = "open", !.params = TRUE]
    /\ log_lines' = << >>
    /\ loss_fn' = Some("CrossEntropyLoss")
    /\ best_log' = None /\ loss_check' = FromInt(InitLossCheck) /\ stop_count' = 0
    /\ epoch_i' = 0
    /\ IF IsNone(train_dataset) THEN Raise(NoDataset)
       ELSE pc' = "epochs" /\ outcome' = ""
    /\ UNCHANGED << conf, model_mode, stdout, caller, step, total_loss, batch_loss,
                    batch_counts, avg_train_loss, evalv, ghost, lossv >>

\* train(), up to the epoch loop
CallTrain ==
    /\ pc = "idle" /\ ~train_called
    /\ train_called' = TRUE
    /\ retval' = None
    /\ IF IsNone(train_dataset)
       THEN /\ Raise(NoDataset)
            /\ UNCHANGED << dir_id, fs, log_lines, loss_fn, best_log, loss_check,
                            stop_count, epoch_i >>
       ELSE /\ dir_id' = Some(RunDir)
            /\ fs' = [fs EXCEPT !.dir = TRUE, !.log = "open", !.params = TRUE]
            /\ log_lines' = << >>
            /\ loss_fn' = Some("CrossEntropyLoss")
            /\ best_log' = None
            /\ loss_check' = FromInt(InitLossCheck)
            /\ stop_count' = 0
            /\ epoch_i' = 0
            /\ pc' = "epochs"
            /\ outcome' = ""
    /\ UNCHANGED << conf, model_mode, stdout, caller, step, total_loss, batch_loss,
                    batch_counts, avg_train_loss, evalv, ghost, lossv >>

\* the head of an epoch: set_epoch, the sums, model.train(), the table header
EpochBegin ==
    /\ pc = "epochs" /\ epoch_i < args.num_train_epochs
    /\ total_loss' = FromInt(0) /\ batch_loss' = FromInt(0) /\ batch_counts' = 0
    /\ model_mode' = "train"
    /\ stdout' = Emit(stdout, "header")
    /\ log_lines' = Emit(log_lines, "header")
    /\ step' = 0
    /\ pc' = "batches"
    /\ UNCHANGED << conf, dir_id, loss_fn, fs, caller, outcome, retval, epoch_i,
                    avg_train_loss, best_log, loss_check, stop_count, evalv,
                    train_called, ghost, lossv >>

\* one training batch: masking, forward, the masked loss, backward, step, logging
TrainBatch ==
    /\ pc = "batches" /\ step < Get(train_dataset)
    /\ \E b \in TrainOutcomes :
         LET loss == TrainLoss(b)
             counts == batch_counts + 1
             bsum == FAdd(batch_loss, loss)
         IN  /\ total_loss' = FAdd(total_loss, loss)
             /\ ops' = [ops EXCEPT !.forward = @ + 1, !.backward = @ + 1, !.step = @ + 1]
             /\ IF args.rank = 0 /\ args.logging_steps = 0
                THEN \* step % 0
                     /\ Raise("ZeroDivisionError")
                     /\ batch_loss' = bsum /\ batch_counts' = counts
                     /\ UNCHANGED << stdout, log_lines, step >>
                ELSE /\ IF /\ args.rank = 0
                           /\ \/ (step % args.logging_steps = 0 /\ step # 0)
                              \/ step = Get(train_dataset) - 1
                        THEN /\ stdout' = Append(stdout, Line("progress"))
                             /\ log_lines' = Append(log_lines, Line("progress"))
                             /\ batch_loss' = FromInt(0) /\ batch_counts' = 0
                        ELSE /\ batch_loss' = bsum /\ batch_counts' = counts
                             /\ UNCHANGED << stdout, log_lines >>
                     /\ step' = step + 1
                     /\ UNCHANGED << pc, outcome >>
    /\ UNCHANGED << conf, dir_id, loss_fn, model_mode, fs, caller, retval, epoch_i,
                    avg_train_loss, best_log, loss_check, stop_count, evalv,
                    train_called, stopped, ops_at_stop, epochs, lossv >>

\* an epoch without evaluation that saves nothing
SaveCallsNoneUnevaluated(evaluated, improved) ==
    IF evaluated /\ improved THEN 1 ELSE 0

\* the save_model() calls at the end of an epoch: one when the evaluated loss
\* improved, none when it did not, one when there was no evaluation
SaveCalls(evaluated, improved) ==
    IF evaluated THEN (IF improved THEN 1 ELSE 0) ELSE 1

\* after the last batch: the average loss, then evaluate() or save_model()
EndOfBatches ==
    /\ pc = "batches" /\ step = Get(train_dataset)
    /\ IF Get(train_dataset) = 0
       THEN \* total_loss / len(train_dataloader)
            /\ Raise("ZeroDivisionError")
            /\ UNCHANGED << avg_train_loss, stdout, log_lines, caller, model_mode,
                            evalv, ops, fs, epochs, epoch_i >>
       ELSE /\ avg_train_loss' = FDiv(total_loss, Get(train_dataset))
            /\ log_lines' = Emit(log_lines, "rule")
            /\ IF Truth(valid_dataloader)
               THEN /\ pc' = "evaluate"
                    /\ caller' = "train"
                    /\ model_mode' = "eval"
                    /\ valid_len' = Get(valid_dataloader)
                    /\ valid_i' = 0
                    /\ val_loss' = << >>
                    /\ ops' = Did("evaluate")
                    /\ stdout' = Emit(stdout, "rule")
                    /\ UNCHANGED << fs, epochs, epoch_i, outcome >>
               ELSE /\ fs' = IF SaveCalls(FALSE, FALSE) > 0 THEN SavedFiles ELSE fs
                    /\ ops' = [ops EXCEPT !.save_model = @ + SaveCalls(FALSE, FALSE)]
                    /\ stdout' = Emit(Emit(stdout, "rule"), "time")
                    /\ epochs' = Append(epochs,
                         [evaluated |-> FALSE, loss |-> NaN,
                          check_before |-> loss_check, check_after |-> loss_check,
                          stop_before |-> stop_count, stop_after |-> stop_count,
                          saves |-> ops'.save_model - ops.save_model])
                    /\ epoch_i' = epoch_i + 1
                    /\ pc' = "epochs"
                    /\ UNCHANGED << caller, model_mode, evalv, outcome >>
    /\ UNCHANGED << conf, dir_id, loss_fn, retval, step, total_loss, batch_loss,
                    batch_counts, best_log, loss_check, stop_count, train_called,
                    stopped, ops_at_stop, lossv >>

----------------------------------------------------------------------------
(* evaluate() *)

\* one evaluation batch: masking, forward, the masked loss
EvalBatch ==
    /\ pc = "evaluate" /\ valid_i < valid_len
    /\ \E b \in EvalOutcomes :
         /\ ops' = IF caller = "train" THEN Did("forward") ELSE ops
         /\ IF IsNone(loss_fn)
            THEN \* self.loss_fn is set by train() only
                 /\ Raise("AttributeError")
                 /\ UNCHANGED << val_loss, valid_i >>
            ELSE /\ val_loss' = Append(val_loss, EvalLoss(b))
                 /\ valid_i' = valid_i + 1
                 /\ UNCHANGED << pc, outcome >>
    /\ UNCHANGED << conf, dir_id, loss_fn, model_mode, fs, log_lines, stdout, caller,
                    retval, loop, valid_len, train_called, stopped, ops_at_stop,
                    epochs, lossv >>

\* evaluate() returns {"loss": np.mean(val_loss)}; in train() the rest of the
\* epoch follows: the result line, the checkpoint or the stop count, the break
EvalReturn ==
    /\ pc = "evaluate" /\ valid_i = valid_len
    /\ LET results == [loss |-> NpMean(val_loss)]
       IN  IF caller = "user"
           THEN /\ retval' = Some(results)
                /\ outcome' = "returned"
                /\ pc' = "idle"
                /\ UNCHANGED << fs, log_lines, stdout, loop, ghost >>
           ELSE LET result == [loss |-> results.loss,
                               train_loss |-> Round4(avg_train_loss)]
                    improved == Improved(result.loss)
                    saves == SaveCalls(TRUE, improved)
                    count == IF improved THEN 0 ELSE stop_count + 1
                    out1 == Emit(stdout, "result")
                    log1 == Emit(log_lines, "result")
                    saved == IF saves > 0 THEN SavedFiles ELSE fs
                IN  /\ best_log' = IF improved THEN Some(result) ELSE best_log
                    /\ loss_check' = IF improved THEN result.loss ELSE loss_check
                    /\ stop_count' = count
                    /\ ops' = [ops EXCEPT !.save_model = @ + saves]
                    /\ epochs' = Append(epochs,
                         [evaluated |-> TRUE, loss |-> result.loss,
                          check_before |-> loss_check, check_after |-> loss_check',
                          stop_before |-> stop_count, stop_after |-> count,
                          saves |-> saves])
                    /\ IF ShouldStop(count)
                       THEN /\ stdout' = Emit(out1, "EARLY STOPPED")
                            /\ log_lines' = Emit(log1, "EARLY STOPPED")
                            /\ fs' = IF args.rank = 0
                                     THEN [saved EXCEPT !.log = "closed"] ELSE saved
                            /\ stopped' = TRUE
                            /\ ops_at_stop' = ops'
                            /\ pc' = "end"
                            /\ UNCHANGED epoch_i
                       ELSE /\ stdout' = Emit(out1, "time")
                            /\ log_lines' = log1
                            /\ fs' = saved
                            /\ epoch_i' = epoch_i + 1
                            /\ pc' = "epochs"
                            /\ UNCHANGED << stopped, ops_at_stop >>
                    /\ UNCHANGED << retval, outcome, step, total_loss, batch_loss,
                                    batch_counts, avg_train_loss >>
    /\ UNCHANGED << conf, dir_id, loss_fn, model_mode, caller, evalv, train_called,
                    lossv >>

\* after the epoch loop: the closing lines, on rank 0 only
TrainEnd ==
    /\ \/ pc = "epochs" /\ epoch_i >= args.num_train_epochs
       \/ pc = "end"
    /\ pc' = "idle"
    /\ IF args.rank = 0
       THEN LET out == Append(Append(stdout, Line("")), Line("MODEL TRAINING END"))
            IN  IF fs.log = "closed"
                THEN \* print(..., file=log) on the file the break closed
                     /\ outcome' = "ValueError"
                     /\ stdout' = out
                     /\ UNCHANGED << log_lines, fs >>
                ELSE /\ outcome' = "returned"
                     /\ stdout' = Append(out, Line("best_log"))
                     /\ log_lines' = Append(Append(log_lines, Line("MODEL TRAINING END")),
                                            Line("best_log"))
                     /\ fs' = [fs EXCEPT !.log = "closed"]
       ELSE /\ outcome' = "returned"
            /\ UNCHANGED << stdout, log_lines, fs >>
    /\ UNCHANGED << conf, dir_id, loss_fn, model_mode, caller, retval, loop, evalv,
                    train_called, ghost, lossv >>

----------------------------------------------------------------------------
(* evaluate() and save_model() called on the Trainer directly *)

CallEvaluate ==
    /\ pc = "idle" /\ ~train_called
    /\ \E n \in 0..MaxValBatches : valid_len' = n
    /\ pc' = "evaluate"
    /\ caller' = "user"
    /\ model_mode' = "eval"
    /\ valid_i' = 0
    /\ val_loss' = << >>
    /\ outcome' = ""
    /\ retval' = None
    /\ UNCHANGED << conf, dir_id, loss_fn, fs, log_lines, stdout, loop, train_called,
                    ghost, lossv >>

CallSaveModel ==
    /\ pc = "idle" /\ ~train_called
    /\ retval' = None
    /\ IF IsNone(dir_id)
       THEN \* os.path.exists(None)
            /\ outcome' = "TypeError"
            /\ UNCHANGED fs
       ELSE /\ outcome' = "returned"
            /\ fs' = SavedFiles
    /\ UNCHANGED << conf, dir_id, loss_fn, model_mode, log_lines, stdout, pc, caller,
                    loop, evalv, train_called, ghost, lossv >>

Next ==
    \/ CallTrain
    \/ EpochBegin
    \/ TrainBatch
    \/ EndOfBatches
    \/ EvalBatch
    \/ EvalReturn
    \/ TrainEnd
    \/ CallEvaluate
    \/ CallSaveModel

Spec == Init /\ [][Next]_vars

----------------------------------------------------------------------------
(* The masked loss on its own: every batch of at most MaxLen positions, *)
(* through the training path and through the evaluation path            *)

InitLoss ==
    /\ args = [rank |-> 0, num_train_epochs |-> 0, max_stop_number |-> 0,
               logging_steps |-> 1]
    /\ train_dataset = None
    /\ dev_dataset = None
    /\ InitTrainer
    /\ loss_batch \in { Some(b) : b \in Batches }
    /\ loss_value = NaN
    /\ loss_path = ""

LossOfTrainBatch ==
    /\ loss_path = ""
    /\ loss_value' = TrainLoss(Get(loss_batch))
    /\ loss_path' = "train"
    /\ UNCHANGED << conf, dir_id, loss_fn, model_mode, fs, log_lines, stdout, pc,
                    caller, outcome, retval, loop, evalv, train_called, ghost,
                    loss_batch >>

LossOfEvalBatch ==
    /\ loss_path = ""
    /\ loss_value' = EvalLoss(Get(loss_batch))
    /\ loss_path' = "eval"
    /\ UNCHANGED << conf, dir_id, loss_fn, model_mode, fs, log_lines, stdout, pc,
                    caller, outcome, retval, loop, evalv, train_called, ghost,
                    loss_batch >>

NextLoss ==
    \/ LossOfTrainBatch
    \/ LossOfEvalBatch

SpecLoss == InitLoss /\ [][NextLoss]_vars

----------------------------------------------------------------------------
(* What the claims are stated with *)

NumEpochs == Len(epochs)

\* train() left its epoch loop and went through its closing lines
TrainOver == train_called /\ pc = "idle" /\ outcome \in {"returned", "ValueError"}

\* the validation loss of epoch k is a number strictly below every validation
\* loss of an earlier epoch
LowerThanAllBefore(k) ==
    /\ epochs[k].evaluated
    /\ ~IsNaN(epochs[k].loss)
    /\ \A j \in 1..(k - 1) :
         (epochs[j].evaluated /\ ~IsNaN(epochs[j].loss))
            => FLess(epochs[k].loss, epochs[j].loss)

\* the same, and below 10000 too
LowerThanAllBeforeAnd10000(k) ==
    /\ LowerThanAllBefore(k)
    /\ FLess(epochs[k].loss, FromInt(10000))

\* the number of consecutive evaluated epochs, ending with epoch k, whose
\* validation loss was not lower
RECURSIVE Streak(_, _)
Streak(k, capped) ==
    IF k = 0 \/ ~epochs[k].evaluated THEN 0
    ELSE IF (IF capped THEN LowerThanAllBeforeAnd10000(k) ELSE LowerThanAllBefore(k))
         THEN 0
         ELSE 1 + Streak(k - 1, capped)

\* the smallest of 10000 and the validation losses of epochs 1..k
RECURSIVE LowestUpTo(_)
LowestUpTo(k) ==
    IF k = 0 THEN FromInt(10000)
    ELSE LET before == LowestUpTo(k - 1)
         IN  IF epochs[k].evaluated /\ FLess(epochs[k].loss, before)
             THEN epochs[k].loss ELSE before

EarlyStopping(capped) ==
    (args.max_stop_number >= 1 /\ ~IsNone(dev_dataset)) =>
        \* the loop ends at the first epoch at which the count reaches max_stop_number
        /\ \A k \in 1..NumEpochs :
             Streak(k, capped) >= args.max_stop_number => (stopped /\ k = NumEpochs)
        /\ stopped => Streak(NumEpochs, capped) = args.max_stop_number
        \* nothing runs after it
        /\ stopped => ops = ops_at_stop
        \* the epoch before the stop did not improve the loss
        /\ stopped => (epochs[NumEpochs].saves = 0
                       /\ ~FLess(epochs[NumEpochs].loss, epochs[NumEpochs].check_before))
        \* without a stop every epoch is run
        /\ NumEpochs <= args.num_train_epochs
        /\ (TrainOver /\ ~stopped) => NumEpochs = args.num_train_epochs

\* C1 as stated: early stopping ends the epoch loop exactly at the end of the
\* first epoch at which the number of consecutive epochs whose validation loss
\* was not strictly lower than the lowest validation loss seen so far reaches
\* max_stop_number; nothing is trained, evaluated or saved after it, it never
\* follows an improving epoch, and without it num_train_epochs epochs are run.
C1_AsStated == EarlyStopping(FALSE)

\* C1 (amended): as C1, with "not strictly lower than the lowest validation
\* loss seen so far" read as "not strictly lower than the lowest of 10000 and
\* the validation losses seen so far".
C1_EarlyStopping == EarlyStopping(TRUE)

C1_Witness ==
    /\ args.max_stop_number = 2 /\ ~IsNone(dev_dataset)
    /\ stopped /\ pc = "idle" /\ NumEpochs = 3
    /\ epochs[1].saves = 1 /\ epochs[2].saves = 0 /\ epochs[3].saves = 0

Checkpointing(with_dev) ==
    with_dev =>
        /\ (train_called /\ outcome # NoDataset /\ NumEpochs = 0)
              => (loss_check = FromInt(10000) /\ stop_count = 0)
        /\ NumEpochs > 0 => (loss_check = epochs[NumEpochs].check_after
                             /\ stop_count = epochs[NumEpochs].stop_after)
        /\ \A k \in 1..NumEpochs :
             LET e == epochs[k]
                 lower == e.evaluated /\ FLess(e.loss, e.check_before)
             IN  /\ e.check_before = IF k = 1 THEN FromInt(10000)
                                     ELSE epochs[k - 1].check_after
                 /\ e.stop_before = IF k = 1 THEN 0 ELSE epochs[k - 1].stop_after
                 /\ e.saves = IF lower THEN 1 ELSE 0
                 /\ e.check_after = LowestUpTo(k)
                 /\ e.stop_after = IF lower THEN 0 ELSE e.stop_before + 1

\* C2 as stated: with a dev dataset, at the end of an epoch save_model() is
\* called once if the epoch's validation loss is strictly lower than
\* loss_check and not at all otherwise; loss_check starts at 10000 and is the
\* minimum of 10000 and the validation losses so far; stop_count is reset to 0
\* on the improving epochs and incremented by 1 on all others.
C2_AsStated == Checkpointing(~IsNone(dev_dataset))

\* C2 (amended): the same for a dev dataset whose loader has at least one
\* batch.
C2_Checkpointing == Checkpointing(Truth(valid_dataloader))

C2_Witness ==
    /\ Truth(valid_dataloader) /\ NumEpochs = 3
    /\ epochs[1].saves = 1 /\ epochs[2].saves = 1 /\ epochs[3].saves = 0
    /\ epochs[3].stop_after = 1

\* C3: train() on a Trainer without a train dataset raises "train_dataset
\* doesn't exists!" before any other effect: no directory, dir_id None, no
\* log.txt or params.txt, no loss_fn, no forward, backward, step or save_model.
C3_NoDatasetNoEffect ==
    (train_called /\ IsNone(train_dataset)) =>
        /\ pc = "idle" /\ outcome = NoDataset
        /\ dir_id = None
        /\ fs = NoFiles
        /\ loss_fn = None
        /\ ops = NoOps
        /\ stdout = << >> /\ log_lines = << >>
        /\ NumEpochs = 0

C3_Witness == train_called /\ IsNone(train_dataset) /\ outcome = NoDataset

\* the loss of batch b on the path that computed it
PathLoss(path, b) == IF path = "train" THEN TrainLoss(b) ELSE EvalLoss(b)

\* the positions to predict
Predicted(b) == { i \in DOMAIN b.label : b.label[i] # -100 }

RECURSIVE SumOver(_, _)
SumOver(b, S) ==
    IF S = {} THEN 0
    ELSE LET i == CHOOSE x \in S : TRUE
         IN  b.logits[i][b.label[i]] + SumOver(b, S \ {i})

\* C4: on the training and on the evaluation path the loss of a batch is the
\* mean cross entropy over exactly the positions whose label is not -100; what
\* the model gives at a position labelled -100 does not change the loss.
C4_MaskedLoss ==
    loss_path # "" =>
        LET b == Get(loss_batch)
            P == Predicted(b)
        IN  /\ loss_value = IF P = {} THEN NaN
                            ELSE Frac(SumOver(b, P), Cardinality(P))
            /\ \A i \in (DOMAIN b.label) \ P : \A r \in Rows :
                 PathLoss(loss_path, [b EXCEPT !.logits[i] = r]) = loss_value
            /\ TrainLoss(b) = EvalLoss(b)

C4_Witness ==
    /\ loss_path = "eval"
    /\ Get(loss_batch).label = << IgnoreIndex, 2 >>
    /\ loss_value = FromInt(2)

\* C5: a process whose rank is not 0 prints nothing and writes no line to
\* log.txt; every line printed or logged comes from rank 0.
C5_OnlyRank0Logs ==
    /\ \A i \in DOMAIN stdout : stdout[i].rank = 0
    /\ \A i \in DOMAIN log_lines : log_lines[i].rank = 0
    /\ args.rank # 0 => (stdout = << >> /\ log_lines = << >>)

C5_Witness ==
    /\ args.rank # 0 /\ TrainOver /\ stopped /\ NumEpochs >= 2
    /\ stdout = << >> /\ log_lines = << >>

\* C6 as stated: evaluate() returns its dict and save_model() writes the
\* checkpoint also when train() has not been called on the Trainer before.
C6_AsStated ==
    ~train_called => outcome \notin {"AttributeError", "TypeError"}

\* C7: without a dev dataset evaluate() is never called, save_model() is called
\* once at the end of every epoch, there is no early stop, num_train_epochs
\* epochs are run and best_log is None at "MODEL TRAINING END".
C7_NoDevDataset ==
    IsNone(dev_dataset) =>
        /\ ops.evaluate = 0
        /\ \A k \in 1..NumEpochs : ~epochs[k].evaluated /\ epochs[k].saves = 1
        /\ ops.save_model = NumEpochs
        /\ ~stopped
        /\ best_log = None
        /\ NumEpochs <= args.num_train_epochs
        /\ TrainOver => (NumEpochs = args.num_train_epochs /\ outcome = "returned")
        /\ (\E i \in DOMAIN stdout : stdout[i].text = "MODEL TRAINING END")
              => (NumEpochs = args.num_train_epochs /\ best_log = None)

C7_Witness ==
    /\ IsNone(dev_dataset) /\ TrainOver /\ args.rank = 0
    /\ NumEpochs = 2 /\ ops.save_model = 2
    /\ \E i \in DOMAIN stdout : stdout[i].text = "MODEL TRAINING END"

====
